---------------------------- MODULE Spec2Model ----------------------------
(***************************************************************************)
(* Model of spsc::CircularBuffer (src/src/spsc/mod.rs): a lossy ring       *)
(* buffer of `size` logical positions over an arena of 2*size+1 cells,     *)
(* exchanged between one producer (put) and one consumer (iter and the     *)
(* CircularBufferIterator it returns) through compare-and-swap on the      *)
(* descriptor words write_to[pos] = (cell << 16) + (seqno & 0xffff).       *)
(*                                                                         *)
(* The producer is the loop of src/src/main.rs lines 12-14 (put of the     *)
(* strictly increasing integers 1, 2, ...), the consumer the loop of       *)
(* lines 17-23: a bounded number of drains (iter, then the iterator is     *)
(* read to its end), each value compared with the one read before it in    *)
(* the same drain, and a panic ("invalid value read!") that ends the       *)
(* consumer when it is smaller.  The two interleave at the granularity of  *)
(* the individual atomic accesses and of the plain stores that follow      *)
(* them.  The consumer runs on the main thread: a panic there ends the     *)
(* process, and with it the producer thread, wherever it is in a put.      *)
(*                                                                         *)
(* put and iter are public, and the buffer's guarantees to the producer   *)
(* are about any single consumer: the specification CallerSpec runs the    *)
(* same put and iter steps against a consumer that calls iter without a    *)
(* limit and reads each iterator to its end.                               *)
(*                                                                         *)
(* The sequential simple::CircularBuffer (src/src/simple/mod.rs) is        *)
(* modelled at the end of the module, under its own specification          *)
(* SimpleSpec: main runs simple::tests() before the spsc buffer exists.    *)
(***************************************************************************)
EXTENDS Integers, Sequences, FiniteSets, TLC

\* ------------------------------------------------------------- bounds
\* largest capacity handed to new()
MaxSize == 3
\* number of put calls the producer makes (values 1..MaxPuts)
MaxPuts == 4
\* number of values one simple::CircularBufferIterator is followed for
MaxYield == 4
\* number of drains the consumer makes (the range 1..1000 of main)
MaxDrains == 3

\* ---------------------------------------------------------- constants
\* width of the sequence tag in a descriptor word (<< 16, >> 16, & 0xffff)
TagBits == 16
\* the default value new() fills the arena with (tests(): new(4, 0 as i32))
DefaultValue == 0

VARIABLES
  size,        \* CircularBuffer.size
  seqno,       \* CircularBuffer.seqno (AtomicUsize)
  data,        \* CircularBuffer.data, cells 0 .. 2*size
  write_to,    \* CircularBuffer.write_to, descriptor words 0 .. size-1
  read_from,   \* CircularBuffer.read_from, 0 .. size-1
  write_tmp,   \* CircularBuffer.write_tmp
  pcP,         \* producer: position inside put
  put_l,       \* producer: locals of put (seqno, old_flag, new_flag) and
               \*   retried: a compare_and_swap of this call has failed
  next_val,    \* producer: the loop variable i of main (next value to put)
  put_ret,     \* producer: value returned by the last completed put
  pcC,         \* consumer: position inside iter / the iterator; "panic"
               \*   after a failed get_mut, "invalid_value" after the
               \*   panic of main line 20, "exited" once that panic of
               \*   the main thread has ended the process
  iter_l,      \* consumer: locals of iter (seqno, count, old_flag, new_flag)
  it_count,    \* CircularBufferIterator.count
  out,         \* values yielded by the current (or last) drain, in order
  prev,        \* consumer: the variable prev of main (line 18)
  drains,      \* consumer: iterations of the loop of main line 17 begun
  hist,        \* observations of the run the properties are stated over
  s_seqno,     \* simple::CircularBuffer.seqno
  s_data,      \* simple::CircularBuffer.data, 0 .. data.len()-1
  s_pc,        \* simple: "none" (no buffer), "idle", "iter" (an iterator
               \*   is live), "panic"
  s_iter,      \* simple::CircularBufferIterator (position, limit) and
               \*   done: next has returned None
  s_out,       \* simple: the values yielded by the live (or last) iterator,
               \*   or handed to the getter by the last get_range, in order
  s_range      \* simple: the last get_range call (from, to, ret)

vars == << size, seqno, data, write_to, read_from, write_tmp,
           pcP, put_l, next_val, put_ret, pcC, iter_l, it_count, out, prev,
           drains, hist,
           s_seqno, s_data, s_pc, s_iter, s_out, s_range >>

bufferVars == << size, seqno, data, write_to, read_from, write_tmp >>
producerVars == << pcP, put_l, next_val, put_ret >>
consumerVars == << pcC, iter_l, it_count, out, prev, drains, hist >>
spscVars == << bufferVars, producerVars, consumerVars >>
simpleVars == << s_seqno, s_data, s_pc, s_iter, s_out, s_range >>

\* ------------------------------------------------------ pure helpers
TagMod == 2 ^ TagBits

\* old_flag >> 16
FlagPos(flag) == flag \div TagMod

\* old_flag & 0xffff
FlagSeq(flag) == flag % TagMod

\* (cell << 16) + (seq & 0xffff)
MakeFlag(cell, seq) == (cell * TagMod) + (seq % TagMod)

\* faulty variant: the position is not reduced modulo the capacity
PutPosNoWrap(s, sz) == s

\* put: pos = seqno % self.size
PutPos(s, sz) == s % sz

\* faulty variant: the walk starts at the position the next put will write
IterPosForward(s, sz) == s % sz

\* iter: pos = (seqno-1) % self.size
IterPos(s, sz) == (s - 1) % sz

\* faulty variant: the walk does not stop when the sequence number reaches 0
IterBreakNoZero(count, s, sz) == count >= sz

\* iter: if count >= self.size || seqno == 0 { break; }
IterBreak(count, s, sz) == count >= sz \/ s = 0

\* faulty variant: the new spare is decoded from the wrong half of the word
PutNewTmpTag(old_flag) == FlagSeq(old_flag)

\* put: self.write_tmp = old_pos after the successful exchange
PutNewTmp(old_flag) == FlagPos(old_flag)

\* faulty variant: the recovered cell is decoded from the wrong half
IterRecoveredTag(old_flag) == FlagSeq(old_flag)

\* iter: *r = old_pos after the successful exchange
IterRecovered(old_flag) == FlagPos(old_flag)

\* faulty variant: the tag is not carried over into the new word
IterNewFlagNoTag(r, old_flag) == MakeFlag(r, 0)

\* faulty variant: the descriptor keeps the cell the drain takes
IterNewFlagKeep(r, old_flag) == old_flag

\* iter: new_flag = (*r << 16) + (old_seq & 0xffff)
IterNewFlag(r, old_flag) == MakeFlag(r, FlagSeq(old_flag))

\* faulty variant: the descriptor is tagged with the incremented counter
PutNewFlagNextSeq(tmp, s) == MakeFlag(tmp, s + 1)

\* put: new_flag = (self.write_tmp << 16) + (seqno & 0xffff)
PutNewFlag(tmp, s) == MakeFlag(tmp, s)

\* faulty variant: the retry keeps comparing against the stale observation
PutRetryStale(old_flag, result) == old_flag

\* put: old_flag = result when the exchange failed (lines 83-84)
PutRetryFlag(old_flag, result) == result

\* put: the value of the call, self.seqno.fetch_add(1, SeqCst)
PutReturn(s) == s

\* faulty variant: the counter is stored back without the increment
FetchAddLost(s) == s

\* put: the value fetch_add(1, SeqCst) leaves in self.seqno
FetchAdd(s) == s + 1

\* faulty variant: the recovery cells start one cell too low
NewReadFromLow(sz, i) == sz + i

\* new: ret.read_from.push(1+size+i)
NewReadFrom(sz, i) == 1 + sz + i

\* new: ret.write_to.push(AtomicUsize::new((1+i) << 16))
NewWriteTo(i) == MakeFlag(1 + i, 0)

\* new: if size == 0 { panic!("size cannot be zero"); }
NewPanics(sz) == sz = 0

\* faulty variant: iter retries the exchange instead of breaking out of the loop
IterOnFailRetry == "load_flag"

\* iter: else { break; } when the exchange failed (line 117)
IterOnFail == "view"

\* main: if i < prev { panic!("invalid value read!"); }
InvalidValueRead(i, p) == i < p

\* main: for _k in 1..1000, another iteration follows k begun ones
MoreDrains(k) == k < MaxDrains

\* CircularBufferIterator::next: the index read after self.count -= 1
NextIndex(count) == count - 1

\* the process runs: no panic of the main thread has ended it (the
\* producer is a thread spawned by main, lines 11-15)
Running == pcC # "exited"

\* a put call is in flight
InPut == pcP \in {"load_seqno", "load_flag", "cas", "set_tmp", "fetch_add"}

\* an iter call is in flight (its iterator is not yet returned)
InIter == pcC \in {"load_flag", "cas", "store"}

Range(s) == { s[i] : i \in 1..Len(s) }

NoPutLocals == [seqno |-> 0, old_flag |-> 0, new_flag |-> 0, retried |-> FALSE]
NoIterLocals == [seqno |-> 0, count |-> 0, old_flag |-> 0, new_flag |-> 0]
\* hist, per drain: started = next_val when iter was called, quiet = no put
\* was in flight then, seq = the seqno iter loaded, first = no drain had
\* completed before, repeat = the drain before was quiet too and no put has
\* started since it was called, attempts / claimed / failed = the exchanges
\* of this iter call and the cells it took; over the run: drained = some
\* drain has completed, prev_last = the last value yielded by the drains
\* before this one, delivered = the values they yielded, xput = the number
\* of the put call that was in flight when iter last exchanged a descriptor
\* successfully (0 when none was).
NoHist == [started |-> 0, quiet |-> FALSE, first |-> TRUE, repeat |-> FALSE,
           seq |-> 0, prev_last |-> DefaultValue, delivered |-> {},
           attempts |-> 0, claimed |-> << >>, failed |-> FALSE,
           drained |-> FALSE, xput |-> 0]

NoIter == [position |-> 0, limit |-> 0, done |-> FALSE]
NoRange == [called |-> FALSE, from |-> 0, to |-> 0, ret |-> 0]

\* no simple::CircularBuffer exists (main runs simple::tests() to its end
\* before it builds the spsc buffer)
SimpleNone ==
  /\ s_seqno = 0
  /\ s_data = << >>
  /\ s_pc = "none"
  /\ s_iter = NoIter
  /\ s_out = << >>
  /\ s_range = NoRange

\* ---------------------------------------------------------------- new
New(sz) ==
  /\ size = sz
  /\ seqno = 0
  /\ write_tmp = 0
  /\ IF NewPanics(sz)
       THEN /\ data = << >>
            /\ write_to = << >>
            /\ read_from = << >>
            /\ pcP = "panic"
            /\ pcC = "panic"
       ELSE /\ data = [i \in 0..(2 * sz) |-> DefaultValue]
            /\ write_to = [i \in 0..(sz - 1) |-> NewWriteTo(i)]
            /\ read_from = [i \in 0..(sz - 1) |-> NewReadFrom(sz, i)]
            /\ pcP = "idle"
            /\ pcC = "idle"

Init ==
  /\ \E sz \in 0..MaxSize : New(sz)
  /\ put_l = NoPutLocals
  /\ next_val = 1
  /\ put_ret = 0
  /\ iter_l = NoIterLocals
  /\ it_count = 0
  /\ out = << >>
  /\ prev = 0
  /\ drains = 0
  /\ hist = NoHist
  /\ SimpleNone

\* ---------------------------------------------------------------- put
\* lines 56-62: the setter writes the value into data[write_tmp]
PutSetter ==
  /\ Running
  /\ pcP = "idle"
  /\ next_val <= MaxPuts
  /\ IF write_tmp \in DOMAIN data
       THEN /\ data' = [data EXCEPT ![write_tmp] = next_val]
            /\ pcP' = "load_seqno"
       ELSE /\ pcP' = "panic"
            /\ UNCHANGED data
  /\ next_val' = next_val + 1
  /\ UNCHANGED << size, seqno, write_to, read_from, write_tmp, put_l, put_ret,
                  consumerVars >>
  /\ UNCHANGED simpleVars

\* lines 65-69: seqno is loaded, pos computed, write_to.get_mut(pos)
PutLoadSeqno ==
  /\ Running
  /\ pcP = "load_seqno"
  /\ put_l' = [put_l EXCEPT !.seqno = seqno]
  /\ pcP' = IF PutPos(seqno, size) \in DOMAIN write_to THEN "load_flag" ELSE "panic"
  /\ UNCHANGED << bufferVars, next_val, put_ret, consumerVars >>
  /\ UNCHANGED simpleVars

\* lines 71-73: the descriptor is loaded, new_flag computed
PutLoadFlag ==
  /\ Running
  /\ pcP = "load_flag"
  /\ put_l' = [put_l EXCEPT !.old_flag = write_to[PutPos(put_l.seqno, size)],
                            !.new_flag = PutNewFlag(write_tmp, put_l.seqno)]
  /\ pcP' = "cas"
  /\ UNCHANGED << bufferVars, next_val, put_ret, consumerVars >>
  /\ UNCHANGED simpleVars

\* lines 76-85: one compare_and_swap of the retry loop
PutCas ==
  /\ Running
  /\ pcP = "cas"
  /\ LET pos == PutPos(put_l.seqno, size)
         result == write_to[pos]
     IN IF result = put_l.old_flag
          THEN /\ write_to' = [write_to EXCEPT ![pos] = put_l.new_flag]
               /\ pcP' = "set_tmp"
               /\ UNCHANGED put_l
          ELSE /\ put_l' = [put_l EXCEPT !.old_flag = PutRetryFlag(@, result),
                                         !.retried = TRUE]
               /\ UNCHANGED << write_to, pcP >>
  /\ UNCHANGED << size, seqno, data, read_from, write_tmp, next_val, put_ret,
                  consumerVars >>
  /\ UNCHANGED simpleVars

\* line 80: self.write_tmp = old_pos
PutSetTmp ==
  /\ Running
  /\ pcP = "set_tmp"
  /\ write_tmp' = PutNewTmp(put_l.old_flag)
  /\ pcP' = "fetch_add"
  /\ UNCHANGED << size, seqno, data, write_to, read_from, put_l, next_val,
                  put_ret, consumerVars >>
  /\ UNCHANGED simpleVars

\* line 92: self.seqno.fetch_add(1, SeqCst), whose value put returns
PutFetchAdd ==
  /\ Running
  /\ pcP = "fetch_add"
  /\ put_ret' = PutReturn(seqno)
  /\ seqno' = FetchAdd(seqno)
  /\ put_l' = NoPutLocals
  /\ pcP' = "idle"
  /\ UNCHANGED << size, data, write_to, read_from, write_tmp, next_val,
                  consumerVars >>
  /\ UNCHANGED simpleVars

Producer ==
  \/ PutSetter
  \/ PutLoadSeqno
  \/ PutLoadFlag
  \/ PutCas
  \/ PutSetTmp
  \/ PutFetchAdd

\* --------------------------------------------------------------- iter
\* where the loop of iter goes after line 100 (and the get_mut of 103, 105)
IterLoop(count, s) ==
  IF IterBreak(count, s, size) THEN "view"
  ELSE IF count \in DOMAIN read_from /\ IterPos(s, size) \in DOMAIN write_to
         THEN "load_flag"
         ELSE "panic"

\* iter lines 96-97: seqno is loaded, count = 0
IterEnter ==
  /\ pcC = "idle"
  /\ iter_l' = [NoIterLocals EXCEPT !.seqno = seqno]
  /\ pcC' = IterLoop(0, seqno)
  /\ it_count' = 0
  /\ out' = << >>
  /\ hist' = [hist EXCEPT
       !.started = next_val,
       !.quiet = (pcP = "idle"),
       !.first = ~hist.drained,
       !.repeat = (hist.drained /\ hist.quiet /\ hist.started = next_val
                   /\ pcP = "idle"),
       !.seq = seqno,
       !.prev_last = IF out = << >> THEN hist.prev_last ELSE out[Len(out)],
       !.delivered = hist.delivered \cup Range(out),
       !.attempts = 0,
       !.claimed = << >>,
       !.failed = FALSE]
  /\ UNCHANGED << bufferVars, producerVars >>
  /\ UNCHANGED simpleVars

\* main lines 17-19: one more iteration of the loop, prev = 0, rx.iter()
IterLoadSeqno ==
  /\ MoreDrains(drains)
  /\ drains' = drains + 1
  /\ prev' = 0
  /\ IterEnter

\* lines 107-110: the descriptor is loaded, new_flag computed from *r
IterLoadFlag ==
  /\ pcC = "load_flag"
  /\ LET old == write_to[IterPos(iter_l.seqno, size)]
     IN iter_l' = [iter_l EXCEPT !.old_flag = old,
                     !.new_flag = IterNewFlag(read_from[iter_l.count], old)]
  /\ pcC' = "cas"
  /\ UNCHANGED << bufferVars, producerVars, it_count, out, prev, drains, hist >>
  /\ UNCHANGED simpleVars

\* line 112 (and the break of 117): the compare_and_swap
IterCas ==
  /\ pcC = "cas"
  /\ LET pos == IterPos(iter_l.seqno, size)
     IN IF write_to[pos] = iter_l.old_flag
          THEN /\ write_to' = [write_to EXCEPT ![pos] = iter_l.new_flag]
               /\ pcC' = "store"
               /\ it_count' = it_count
               /\ hist' = [hist EXCEPT !.attempts = @ + 1,
                             !.claimed = Append(@, FlagPos(iter_l.old_flag)),
                             !.xput = IF InPut THEN next_val - 1 ELSE 0]
          ELSE /\ pcC' = IterOnFail
               /\ it_count' = iter_l.count
               /\ hist' = [hist EXCEPT !.attempts = @ + 1, !.failed = TRUE]
               /\ UNCHANGED write_to
  /\ UNCHANGED << size, seqno, data, read_from, write_tmp, producerVars,
                  iter_l, out, prev, drains >>
  /\ UNCHANGED simpleVars

\* lines 113-115: *r = old_pos; seqno -= 1; count += 1; then line 100
IterStore ==
  /\ pcC = "store"
  /\ read_from' = [read_from EXCEPT ![iter_l.count] = IterRecovered(iter_l.old_flag)]
  /\ iter_l' = [iter_l EXCEPT !.seqno = @ - 1, !.count = @ + 1]
  /\ pcC' = IterLoop(iter_l.count + 1, iter_l.seqno - 1)
  /\ it_count' = IF IterLoop(iter_l.count + 1, iter_l.seqno - 1) = "view"
                   THEN iter_l.count + 1 ELSE it_count
  /\ UNCHANGED << size, seqno, data, write_to, write_tmp, producerVars, out,
                  prev, drains, hist >>
  /\ UNCHANGED simpleVars

\* CircularBufferIterator::next, lines 138-146, and the body of the for
\* loop of main, lines 19-22, run on the value it returns: the panic of
\* line 20 ends the consumer, None ends the drain
IterNext ==
  /\ pcC = "view"
  /\ IF it_count > 0
       THEN /\ it_count' = NextIndex(it_count)
            /\ IF read_from[NextIndex(it_count)] \in DOMAIN data
                 THEN LET i == data[read_from[NextIndex(it_count)]]
                      IN /\ out' = Append(out, i)
                         /\ IF InvalidValueRead(i, prev)
                              THEN /\ pcC' = "invalid_value"
                                   /\ UNCHANGED prev
                              ELSE /\ prev' = i
                                   /\ UNCHANGED pcC
                 ELSE /\ pcC' = "panic"
                      /\ UNCHANGED << out, prev >>
            /\ UNCHANGED << iter_l, hist >>
       ELSE /\ pcC' = "idle"
            /\ iter_l' = NoIterLocals
            /\ hist' = [hist EXCEPT !.drained = TRUE]
            /\ UNCHANGED << it_count, out, prev >>
  /\ UNCHANGED << drains, bufferVars, producerVars >>
  /\ UNCHANGED simpleVars

Consumer ==
  \/ IterLoadSeqno
  \/ IterLoadFlag
  \/ IterCas
  \/ IterStore
  \/ IterNext

\* main: the panic of line 20 (or one of iter, next) is raised on the main
\* thread and not caught, so the process ends; the producer thread takes
\* no step after that, whatever its position
MainExit ==
  /\ pcC \in {"panic", "invalid_value"}
  /\ ~NewPanics(size)
  /\ pcC' = "exited"
  /\ UNCHANGED << bufferVars, producerVars, iter_l, it_count, out, prev, drains,
                  hist >>
  /\ UNCHANGED simpleVars

Next == Producer \/ Consumer \/ MainExit

Spec == Init /\ [][Next]_vars

\* the producer thread is scheduled fairly while the process runs (the
\* consumer may run or pause, but a panic of main does end the process)
ProducerFair == Spec /\ WF_vars(Producer) /\ WF_vars(MainExit)

\* the consumer thread is scheduled fairly (the producer may run or pause)
ConsumerFair == Spec /\ WF_vars(Consumer) /\ WF_vars(MainExit)

\* ------------------------------------------------ a caller of pub fn iter
\* put and iter are public: the buffer is also used by a consumer other than
\* the loop of main, one that calls iter again and again for as long as it
\* runs and reads each iterator to its end without comparing the values.
\* pub fn iter, entered from such a caller (no loop variable, no prev)
CallerIter ==
  /\ IterEnter
  /\ UNCHANGED << prev, drains >>

\* CircularBufferIterator::next, lines 138-146, called until it returns None
CallerNext ==
  /\ pcC = "view"
  /\ IF it_count > 0
       THEN /\ it_count' = NextIndex(it_count)
            /\ IF read_from[NextIndex(it_count)] \in DOMAIN data
                 THEN /\ out' = Append(out, data[read_from[NextIndex(it_count)]])
                      /\ UNCHANGED pcC
                 ELSE /\ pcC' = "panic"
                      /\ UNCHANGED out
            /\ UNCHANGED << iter_l, hist >>
       ELSE /\ pcC' = "idle"
            /\ iter_l' = NoIterLocals
            /\ hist' = [hist EXCEPT !.drained = TRUE]
            /\ UNCHANGED << it_count, out >>
  /\ UNCHANGED << prev, drains, bufferVars, producerVars >>
  /\ UNCHANGED simpleVars

CallerConsumer ==
  \/ CallerIter
  \/ IterLoadFlag
  \/ IterCas
  \/ IterStore
  \/ CallerNext

CallerNextStep == Producer \/ CallerConsumer

CallerSpec == Init /\ [][CallerNextStep]_vars

\* the producer thread is scheduled fairly; the consumer runs as it likes
CallerProducerFair == CallerSpec /\ WF_vars(Producer)

\* ------------------------------------------------------------ claims
NonDecreasing(s) == \A i \in 1..(Len(s) - 1) : s[i] <= s[i + 1]

Min(a, b) == IF a < b THEN a ELSE b

\* the producer is between two put calls
ProducerIdle == pcP = "idle"

\* no put or iter call is in flight (a returned iterator may still be read)
Quiescent == pcP = "idle" /\ pcC \in {"idle", "view", "invalid_value", "exited"}

\* the current (or last) drain ran from start to here with no put in flight
DrainAlone == hist.quiet /\ hist.started = next_val /\ pcP = "idle"

\* the current (or last) drain has returned and its iterator is exhausted
DrainOver == pcC = "idle" /\ hist.drained

\* the last K written values that fit the capacity, in write order
LastWritten(k, sz) == [i \in 1..Min(k, sz) |-> k - Min(k, sz) + i]

\* the cells owned by the producer, the descriptors and the consumer
OwnedCells == << write_tmp >>
              \o [i \in 1..size |-> FlagPos(write_to[i - 1])]
              \o [i \in 1..size |-> read_from[i - 1]]

\* every arena cell 0 .. 2*size is owned exactly once
Partition ==
  /\ \A i, j \in 1..Len(OwnedCells) : i # j => OwnedCells[i] # OwnedCells[j]
  /\ Range(OwnedCells) = 0..(2 * size)

\* C1: the values yielded by all drains, concatenated in call order, never
\* decrease (the producer writes 1, 2, 3, ...): the current drain's output
\* continues the last value any earlier drain yielded without decreasing.
C1_ConcatNonDecreasing == NonDecreasing(<< hist.prev_last >> \o out)

\* C2: within one drain the yielded values are in write order: no drain
\* yields a value smaller than the one it yielded just before.
C2_DrainInWriteOrder == NonDecreasing(out)

\* C3: on a fresh buffer, K puts run to completion followed by the first
\* drain, with no put in flight during it, yield exactly the last
\* min(K, size) written values in write order.
C3_FirstDrainYieldsLastWritten ==
  (DrainOver /\ hist.first /\ DrainAlone) => out = LastWritten(hist.seq, size)

C3_Witness ==
  /\ DrainOver /\ hist.first /\ DrainAlone
  /\ size >= 2 /\ hist.seq > size
  /\ Len(out) = size

\* C4: a drain that follows another drain, both started with no put in
\* flight and with no put between or during them, yields nothing.
C4_SecondDrainEmpty ==
  (pcC \in {"view", "idle"} /\ hist.repeat /\ DrainAlone)
     => (out = << >> /\ it_count = 0)

\* C5: every value a drain yields was written by a put (it is not the
\* default value), was not yielded by an earlier drain, and is yielded once.
C5_YieldsFreshPutValues ==
  /\ \A i \in 1..Len(out) :
        out[i] \in 1..(next_val - 1) /\ out[i] \notin hist.delivered
  /\ \A i, j \in 1..Len(out) : i # j => out[i] # out[j]

\* C6: with no put and no iter call in flight, write_tmp, the cells of the
\* descriptors and the entries of read_from are pairwise distinct and are
\* exactly the cells 0 .. 2*size.
C6_PartitionAtQuiescence == (Quiescent /\ size >= 1) => Partition

C6_Witness ==
  /\ Quiescent /\ size >= 2
  /\ seqno > size /\ hist.drained /\ pcC = "view" /\ it_count > 0
  /\ write_tmp # 0
  /\ \E i \in 0..(size - 1) : read_from[i] # 1 + size + i

\* C9: a drain yields at most `size` values; a drain that loaded sequence
\* number 0 attempts no exchange and yields nothing; with capacity 1 a
\* drain yields at most one value.
C9_DrainBounded ==
  /\ Len(out) + (IF pcC = "view" THEN it_count ELSE 0) <= size
  /\ (pcC # "idle" /\ hist.seq = 0) => (hist.attempts = 0 /\ out = << >>
                                         /\ it_count = 0)
  /\ size = 1 => Len(out) <= 1

C9_Witness ==
  /\ pcC = "view" /\ hist.seq = 0 /\ seqno >= 1
  /\ write_to = [i \in 0..(size - 1) |-> IF i = 0 THEN MakeFlag(0, 0)
                                                    ELSE MakeFlag(1 + i, 0)]

\* C10: the k-th completed put returns k, the sequence counter after its
\* increment.
C10_PutReturnsNewSeqno ==
  (ProducerIdle /\ next_val > 1) => put_ret = next_val - 1

\* C7: under fair scheduling of the producer every put call eventually
\* returns, even while the consumer keeps calling iter and claims the entry
\* the put is exchanging again and again.
C7_PutReturns == InPut ~> ProducerIdle

\* what a drain has done so far, against what it holds
DrainAccounting ==
  /\ hist.attempts <= size
  /\ hist.attempts = Len(hist.claimed) + (IF hist.failed THEN 1 ELSE 0)
  /\ hist.failed => pcC \in {"view", "idle", "invalid_value", "exited"}
  /\ pcC \in {"view", "idle"} =>
       /\ Len(out) + it_count = Len(hist.claimed)
       /\ \A i \in 1..Len(hist.claimed) : read_from[i - 1] = hist.claimed[i]

\* C8: a drain makes at most `size` exchange attempts, makes none after a
\* failed one, returns exactly the cells its successful exchanges claimed
\* (in claim order in read_from[0..count)), and every iter call in flight
\* reaches its return under fair scheduling of the consumer.
C8_DrainNeverRetries == [](DrainAccounting) /\ (InIter ~> (pcC = "view"))

\* a drain that claimed one cell, failed its second exchange and returned
\* the one cell it had claimed
C8_Witness ==
  /\ pcC = "view" /\ hist.failed
  /\ Len(hist.claimed) >= 1 /\ it_count = Len(hist.claimed)
  /\ read_from[0] = hist.claimed[1]

\* the number of put calls that have returned
CompletedPuts == (next_val - 1) - (IF InPut THEN 1 ELSE 0)

\* C11: the sequence counter is 0 at construction and in every state equals
\* the number of completed put calls: a put increments it by exactly one,
\* after its successful exchange, and no step of a drain changes it.
C11_SeqnoCountsPuts == seqno = CompletedPuts

\* puts have completed around a completed drain and one more is in flight,
\* past its successful exchange
C11_Witness ==
  /\ hist.drained /\ hist.seq >= 1 /\ seqno > hist.seq
  /\ pcP = "fetch_add" /\ InIter

\* no put and no drain has started on the buffer
Fresh == next_val = 1 /\ hist.started = 0

\* C12: new(0, ..) panics and leaves no buffer; new(N, ..) with N >= 1
\* leaves 2N+1 cells holding the default value, sequence counter 0, N
\* descriptors with tag 0, and spare, descriptor cells and recovery cells
\* that partition 0 .. 2N.
C12_Construction ==
  Fresh =>
    IF size = 0
      THEN pcP = "panic" /\ pcC = "panic"
           /\ data = << >> /\ write_to = << >> /\ read_from = << >>
      ELSE /\ pcP = "idle" /\ pcC = "idle"
           /\ DOMAIN data = 0..(2 * size)
           /\ \A c \in DOMAIN data : data[c] = DefaultValue
           /\ seqno = 0
           /\ DOMAIN write_to = 0..(size - 1)
           /\ DOMAIN read_from = 0..(size - 1)
           /\ \A i \in DOMAIN write_to : FlagSeq(write_to[i]) = 0
           /\ Partition

C12_Witness == Fresh /\ size >= 2 /\ pcP = "idle" /\ Cardinality(DOMAIN data) = 2 * size + 1

\* every cell index held anywhere is a cell of the arena
CellsInRange ==
  /\ write_tmp \in DOMAIN data
  /\ \A i \in DOMAIN write_to : FlagPos(write_to[i]) \in DOMAIN data
  /\ \A i \in DOMAIN read_from : read_from[i] \in DOMAIN data

\* every position and recovery index in use is below the capacity
PositionsInRange ==
  /\ InPut /\ pcP # "load_seqno" => PutPos(put_l.seqno, size) \in 0..(size - 1)
  /\ InIter => /\ IterPos(iter_l.seqno, size) \in 0..(size - 1)
               /\ iter_l.count \in 0..(size - 1)
  /\ pcC = "view" => it_count \in 0..size

\* C13: on a constructed buffer no panic of put, iter or next is reached:
\* write_tmp and every cell index in a descriptor or in read_from are in
\* 0 .. 2N, every descriptor position and recovery index used is in 0 .. N-1.
C13_NoOutOfBounds ==
  size >= 1 => /\ pcP # "panic" /\ pcC # "panic"
               /\ CellsInRange
               /\ PositionsInRange

\* both threads are in the middle of an exchange after the positions wrapped
C13_Witness ==
  /\ size >= 2 /\ seqno > size /\ hist.drained
  /\ pcP = "cas" /\ pcC = "cas"
  /\ put_l.retried

\* a step taken by the producer / by the consumer
ProducerStep == pcP' # pcP \/ put_l' # put_l \/ next_val' # next_val
ConsumerStep == pcC' # pcC \/ iter_l' # iter_l \/ it_count' # it_count
                \/ out' # out \/ hist' # hist
                \/ prev' # prev \/ drains' # drains

\* a sequence of cell indices names every cell 0 .. 2*size exactly once
PartitionOf(cells) ==
  /\ \A i, j \in 1..Len(cells) : i # j => cells[i] # cells[j]
  /\ Range(cells) = 0..(2 * size)

\* the cells each side owns, where a thread that has exchanged a descriptor
\* and not yet stored the result owns the cell in its local old_pos
OwnersCells ==
  << IF pcP = "set_tmp" THEN FlagPos(put_l.old_flag) ELSE write_tmp >>
  \o [i \in 1..size |-> FlagPos(write_to[i - 1])]
  \o [i \in 1..size |-> IF pcC = "store" /\ iter_l.count = i - 1
                          THEN FlagPos(iter_l.old_flag)
                          ELSE read_from[i - 1]]

\* C14 (as stated): in every reachable state, also between a successful
\* exchange and the assignment that follows it, write_tmp, the descriptor
\* cells and the read_from entries are pairwise distinct and cover 0 .. 2N.
C14_PartitionAtEveryInstant == size >= 1 => Partition

\* C14 (amended): in every reachable state each cell has exactly one owner
\* when the cell a thread has just exchanged out (its old_pos) is counted
\* in place of the field it has not stored yet; the fields themselves
\* partition the cells in every state outside those two windows.
C14_PartitionOfOwners ==
  size >= 1 => /\ PartitionOf(OwnersCells)
               /\ (pcP # "set_tmp" /\ pcC # "store") => Partition

\* both threads are between their exchange and their store: write_tmp and
\* read_from[count] each still name a cell a descriptor holds
C14_Witness ==
  /\ pcP = "set_tmp" /\ pcC = "store" /\ ~Partition
  /\ \E i \in DOMAIN write_to : FlagPos(write_to[i]) = write_tmp
  /\ \E i \in DOMAIN write_to : FlagPos(write_to[i]) = read_from[iter_l.count]

\* what one step of put may change
PutStepEffect ==
  /\ read_from' = read_from
  /\ \A c \in DOMAIN data : c # write_tmp => data'[c] = data[c]
  /\ pcP' \in {"load_flag", "cas", "set_tmp", "fetch_add"} => put_l'.seqno = seqno'
  /\ pcP # "cas" => write_to' = write_to
  /\ pcP = "cas" =>
       /\ \A i \in DOMAIN write_to :
             i # put_l.seqno % size => write_to'[i] = write_to[i]
       /\ pcP' = "set_tmp" =>
             /\ write_to'[put_l.seqno % size]
                  = (write_tmp * (2 ^ 16)) + (put_l.seqno % (2 ^ 16))
             /\ put_l'.old_flag = write_to[put_l.seqno % size]
       /\ pcP' # "set_tmp" => write_to' = write_to
  /\ pcP = "set_tmp" => write_tmp' = put_l.old_flag \div (2 ^ 16)
  /\ pcP # "set_tmp" => write_tmp' = write_tmp

\* C15: a put that read sequence number s and owns spare cell c sets
\* Descriptor[s mod N] to (c, s mod 2^16) by its successful exchange, takes
\* as new spare the cell that descriptor held at that exchange, and changes
\* no other descriptor, no read_from entry and no arena cell other than c.
C15_PutEffectAndFrame == [][ProducerStep => PutStepEffect]_vars

\* a put has overwritten a position written before (s >= N) with its spare
C15_Witness ==
  /\ pcP = "set_tmp" /\ size >= 2 /\ put_l.seqno >= size
  /\ write_to[put_l.seqno % size] = (write_tmp * (2 ^ 16)) + put_l.seqno
  /\ data[write_tmp] = next_val - 1

\* what a step means for the put that waits at its compare_and_swap: the
\* comparand a put arrives with at the compare_and_swap (from its load or
\* from a failed compare_and_swap) is the entry's value at that step, and
\* while it waits only a successful exchange of iter at that position
\* changes the entry
PutObservationCurrent ==
  /\ (ProducerStep /\ pcP' = "cas") =>
        put_l'.old_flag = write_to'[put_l'.seqno % size]
  /\ (pcP = "cas" /\ ~ProducerStep
        /\ write_to'[put_l.seqno % size] # write_to[put_l.seqno % size]) =>
        /\ pcC = "cas" /\ pcC' = "store"
        /\ (iter_l.seqno - 1) % size = put_l.seqno % size

\* C16: a compare_and_swap of put fails only when iter has successfully
\* exchanged the same descriptor entry since the put last observed it; a
\* put during which iter exchanges no descriptor succeeds at its first
\* compare_and_swap, whatever the buffer holds.
C16_PutFailsOnlyOnClaim ==
  /\ []((InPut /\ put_l.retried) => hist.xput = next_val - 1)
  /\ [][PutObservationCurrent]_vars

\* a put on a full, never drained position whose first exchange failed
\* because iter took the entry, and whose retry succeeded
C16_Witness ==
  /\ pcP = "set_tmp" /\ put_l.retried /\ hist.xput = next_val - 1
  /\ put_l.seqno >= size

\* the number of puts whose exchange has succeeded
ExchangedPuts == seqno + (IF pcP \in {"set_tmp", "fetch_add"} THEN 1 ELSE 0)

\* the low 16 bits of the sequence number of the latest put at position i
LatestTag(i) ==
  LET at == { s \in 0..(ExchangedPuts - 1) : s % size = i }
  IN IF at = {} THEN 0
     ELSE (CHOOSE s \in at : \A t \in at : t <= s) % (2 ^ 16)

\* what a step of the consumer, and of the producer, leaves alone
ExclusiveWrites ==
  /\ ConsumerStep =>
       /\ seqno' = seqno
       /\ write_tmp' = write_tmp
       /\ \A i \in DOMAIN write_to :
            /\ write_to'[i] % (2 ^ 16) = write_to[i] % (2 ^ 16)
            /\ write_to'[i] # write_to[i] =>
                 write_to'[i] \div (2 ^ 16) \in { read_from[j] : j \in DOMAIN read_from }
  /\ ProducerStep => read_from' = read_from

\* C17: no step of a drain changes seqno, write_tmp or the tag of a
\* descriptor, a drain changes a descriptor only by putting one of its
\* read_from cells in it, no step of put changes read_from, and the tag of
\* Descriptor[i] is always the low 16 bits of the sequence number of the
\* latest put exchanged at position i (0 if none).
C17_ExclusiveWrites ==
  /\ [](\A i \in DOMAIN write_to : write_to[i] % (2 ^ 16) = LatestTag(i))
  /\ [][ExclusiveWrites]_vars

\* a drain has just exchanged a descriptor with a non-zero tag
C17_Witness ==
  /\ pcC = "store"
  /\ write_to[(iter_l.seqno - 1) % size] = iter_l.new_flag
  /\ iter_l.new_flag % (2 ^ 16) >= 1
  /\ iter_l.new_flag \div (2 ^ 16) = read_from[iter_l.count]

\* the cells the drain in progress has claimed and its iterator can still
\* yield
DrainCells ==
  IF pcC = "view" THEN { read_from[i] : i \in 0..(it_count - 1) }
  ELSE IF InIter
    THEN { read_from[i] : i \in 0..(iter_l.count - 1) }
         \cup (IF pcC = "store" THEN { iter_l.old_flag \div (2 ^ 16) } ELSE {})
    ELSE {}

\* the cells the descriptors publish
PublishedCells == { write_to[i] \div (2 ^ 16) : i \in DOMAIN write_to }

\* the producer is before its setter, or has written its spare and not yet
\* published it
SpareInUse == pcP \in {"idle", "load_seqno", "load_flag", "cas"}

\* C18: from before the setter writes the spare until the exchange that
\* publishes it, the spare is no cell a drain holds or a descriptor
\* publishes, and no step writes a cell that a drain holds or that is
\* published: what a drain yields was written before it was published and
\* is not written while it can be yielded.
C18_NoPayloadRace ==
  /\ []((size >= 1 /\ SpareInUse) =>
          (write_tmp \notin DrainCells /\ write_tmp \notin PublishedCells))
  /\ [][\A c \in DrainCells \cup PublishedCells : data'[c] = data[c]]_vars

\* the setter has just written the spare while an iterator still has
\* claimed cells to yield, one of them written by an earlier put
C18_Witness ==
  /\ pcP = "load_seqno" /\ pcC = "view" /\ it_count >= 1 /\ size >= 2
  /\ data[write_tmp] = next_val - 1
  /\ \E i \in 0..(it_count - 1) : data[read_from[i]] >= 1

\* ------------------------------------------- simple::CircularBuffer
\* (src/src/simple/mod.rs) the sequential buffer: one caller, put stores
\* the values 1, 2, 3, ... as simple::tests() does

\* no spsc buffer exists while the simple buffer is used
SpscNone ==
  /\ size = 0 /\ seqno = 0 /\ write_tmp = 0
  /\ data = << >> /\ write_to = << >> /\ read_from = << >>
  /\ pcP = "none" /\ pcC = "none"
  /\ put_l = NoPutLocals /\ next_val = 1 /\ put_ret = 0
  /\ iter_l = NoIterLocals /\ it_count = 0 /\ out = << >> /\ hist = NoHist
  /\ prev = 0 /\ drains = 0

\* data.len()
SimpleLen == Cardinality(DOMAIN s_data)

\* min_pos (lines 29-35, and the same expression in get and get_range)
MinPos(sq, len) == IF sq < len THEN 0 ELSE sq - len

\* new (lines 14-27)
SimpleNew(sz) ==
  /\ s_seqno = 0
  /\ IF sz = 0
       THEN s_data = << >> /\ s_pc = "panic"
       ELSE s_data = [i \in 0..(sz - 1) |-> DefaultValue] /\ s_pc = "idle"
  /\ s_iter = NoIter
  /\ s_out = << >>
  /\ s_range = NoRange

SimpleInit ==
  /\ SpscNone
  /\ \E sz \in 0..MaxSize : SimpleNew(sz)

\* put (lines 45-65), with the setter |v| *v = seqno + 1
SimplePut ==
  /\ s_pc = "idle"
  /\ s_seqno < MaxPuts
  /\ LET pos == s_seqno % SimpleLen
     IN IF pos \in DOMAIN s_data
          THEN /\ s_data' = [s_data EXCEPT ![pos] = s_seqno + 1]
               /\ s_seqno' = s_seqno + 1
               /\ UNCHANGED s_pc
          ELSE /\ s_pc' = "panic"
               /\ UNCHANGED << s_data, s_seqno >>
  /\ s_iter' = NoIter
  /\ s_out' = << >>
  /\ s_range' = NoRange
  /\ UNCHANGED spscVars

\* iter (lines 37-43)
SimpleIter ==
  /\ s_pc = "idle"
  /\ s_iter' = [position |-> MinPos(s_seqno, SimpleLen), limit |-> s_seqno,
                done |-> FALSE]
  /\ s_pc' = "iter"
  /\ s_out' = << >>
  /\ s_range' = NoRange
  /\ UNCHANGED << s_seqno, s_data, spscVars >>

\* the position CircularBufferIterator::next leaves in self.position
\* (lines 147-157 assign nothing to it)
SimpleNextPosition(position) == position

\* CircularBufferIterator::next (lines 147-157), called by count(), max(),
\* last() and the for loop until it returns None
SimpleNext ==
  /\ s_pc = "iter"
  /\ IF s_iter.position >= s_iter.limit
       THEN /\ s_iter' = [s_iter EXCEPT !.done = TRUE]
            /\ s_pc' = "idle"
            /\ UNCHANGED s_out
       ELSE /\ Len(s_out) < MaxYield
            /\ LET at == s_iter.position % SimpleLen
               IN IF at \in DOMAIN s_data
                    THEN /\ s_out' = Append(s_out, s_data[at])
                         /\ s_iter' = [s_iter EXCEPT
                                         !.position = SimpleNextPosition(@)]
                         /\ UNCHANGED s_pc
                    ELSE /\ s_iter' = [s_iter EXCEPT !.done = TRUE]
                         /\ s_pc' = "idle"
                         /\ UNCHANGED s_out
  /\ UNCHANGED << s_seqno, s_data, s_range, spscVars >>

\* the iterator is dropped before it returned None (take(1).last())
SimpleDrop ==
  /\ s_pc = "iter"
  /\ s_pc' = "idle"
  /\ UNCHANGED << s_seqno, s_data, s_iter, s_out, s_range, spscVars >>

\* get_range_fn (lines 121-129): getter(v) for i in from_pos..to_pos
RangeCalls(from_pos, to_pos) ==
  IF to_pos > from_pos
    THEN [k \in 1..(to_pos - from_pos) |-> s_data[from_pos + k - 1]]
    ELSE << >>

\* get_range (lines 83-141): the getter's arguments in call order, the
\* value returned, and whether the call panics
GetRange(from, to) ==
  LET len == SimpleLen
      min_pos == MinPos(s_seqno, len)
      max_pos == s_seqno
      start == IF from > min_pos THEN from ELSE min_pos
      end == IF to > max_pos THEN max_pos ELSE to
      start_pos == start % len
      end_pos == end % len
  IN IF from > to THEN [calls |-> << >>, ret |-> 0, panic |-> TRUE]
     ELSE IF to < min_pos THEN [calls |-> << >>, ret |-> min_pos, panic |-> FALSE]
     ELSE IF from >= max_pos THEN [calls |-> << >>, ret |-> max_pos, panic |-> FALSE]
     ELSE IF end_pos > start_pos
       THEN [calls |-> RangeCalls(start_pos, end_pos), ret |-> end,
             panic |-> FALSE]
       ELSE [calls |-> RangeCalls(start_pos, len) \o RangeCalls(0, end_pos),
             ret |-> end, panic |-> FALSE]

SimpleGetRange ==
  /\ s_pc = "idle"
  /\ \E from \in 0..(MaxPuts + 1), to \in 0..(MaxPuts + 1) :
       LET r == GetRange(from, to)
       IN /\ s_out' = r.calls
          /\ s_range' = [called |-> ~r.panic, from |-> from, to |-> to,
                         ret |-> r.ret]
          /\ s_pc' = IF r.panic THEN "panic" ELSE "idle"
  /\ s_iter' = NoIter
  /\ UNCHANGED << s_seqno, s_data, spscVars >>

SimpleNextStep ==
  \/ SimplePut
  \/ SimpleIter
  \/ SimpleNext
  \/ SimpleDrop
  \/ SimpleGetRange

SimpleSpec == SimpleInit /\ [][SimpleNextStep]_vars

Max(a, b) == IF a > b THEN a ELSE b

\* the values stored for the sequence numbers lo .. hi-1 (put number q+1
\* stores q+1 for sequence number q)
Stored(lo, hi) == [i \in 1..(hi - lo) |-> lo + i]

\* C19: an iterator of the sequential buffer yields exactly the retained
\* values, for the sequence numbers min_pos .. seqno-1 in increasing order,
\* and then None: what it has yielded so far is a prefix of them, and all
\* of them once it has returned None.
C19_SimpleIterYieldsRetained ==
  LET want == Stored(MinPos(s_seqno, SimpleLen), s_seqno)
  IN /\ s_pc = "iter" =>
          /\ Len(s_out) <= Len(want)
          /\ \A i \in 1..Len(s_out) : s_out[i] = want[i]
     /\ s_iter.done => s_out = want

\* C20: get_range(from, to, getter) with from <= to, to >= min_pos and
\* from < seqno hands the getter the values stored for the sequence numbers
\* max(from, min_pos) .. min(to, seqno)-1, once each in increasing order
\* (none when that range is empty), and returns min(to, seqno).
C20_GetRangeVisitsClampedRange ==
  LET min_pos == MinPos(s_seqno, SimpleLen)
      lo == Max(s_range.from, min_pos)
      hi == Min(s_range.to, s_seqno)
  IN (s_range.called /\ s_range.from <= s_range.to /\ s_range.to >= min_pos
        /\ s_range.from < s_seqno)
       => (s_out = Stored(lo, hi) /\ s_range.ret = hi)

=============================================================================
